---- MODULE Spec2Model ----
(***************************************************************************)
(* Model of the todo-list backend: the controller -> service ->            *)
(* repository -> model chain of src/backend-js/controllers.js,             *)
(* src/backend/services.js, src/backend/repositories.js and                *)
(* src/backend/models.js, over one SQLite table "todo".                    *)
(*                                                                         *)
(* JavaScript strings are sequences of one-character strings, JavaScript   *)
(* values are tagged records (JSVal), a thrown Error is a record with the  *)
(* class name and the message, a message is the sequence of the literal    *)
(* fragments it was built from.                                            *)
(***************************************************************************)
EXTENDS Integers, Sequences, FiniteSets, TLC

VARIABLES
    db,               \* the rows of table 'todo', a function from id to row
    sqlite_sequence,  \* the largest id the table has ever assigned
    created,          \* history: the ids assigned, in creation order
    before,           \* history: the rows before the last request
    request,          \* the last request handled
    reply,            \* the response sent for it
    prev,             \* history: the last create or toggle the client saw
                      \* succeed, while nothing else has named its id
    pc,               \* where a getTodoStats in flight stands
    allTodos,         \* the rows that getTodoStats has read
    calls             \* the requests in flight together, one per caller

vars == <<db, sqlite_sequence, created, before, request, reply,
          prev, pc, allTodos, calls>>

----------------------------------------------------------------------------
(* Bounds *)

\* number of create requests that are let through to the store
MaxCreates == 2

\* maxLength of title in todoCreateSchema / validateTodoCreate
TITLE_MAX == 255

----------------------------------------------------------------------------
(* JavaScript values *)

Undefined == [type |-> "undefined", str |-> <<>>, bool |-> FALSE, num |-> 0]
Null      == [type |-> "null",      str |-> <<>>, bool |-> FALSE, num |-> 0]
Str(s)    == [type |-> "string",    str |-> s,    bool |-> FALSE, num |-> 0]
Bool(b)   == [type |-> "boolean",   str |-> <<>>, bool |-> b,     num |-> 0]
Num(n)    == [type |-> "number",    str |-> <<>>, bool |-> FALSE, num |-> n]

\* typeof v
TypeOf(v) == IF v.type = "null" THEN "object" ELSE v.type

\* ToBoolean(v), the test made by !v and by v || w
Truthy(v) ==
    CASE v.type = "string"  -> v.str # <<>>
      [] v.type = "boolean" -> v.bool
      [] v.type = "number"  -> v.num # 0
      [] OTHER              -> FALSE

\* v || w
OrElse(v, w) == IF Truthy(v) THEN v ELSE w

WhiteSpace == {" ", "\t", "\n"}

RECURSIVE TrimStart(_)
TrimStart(s) ==
    IF s = <<>> THEN s
    ELSE IF Head(s) \in WhiteSpace THEN TrimStart(Tail(s)) ELSE s

RECURSIVE TrimEnd(_)
TrimEnd(s) ==
    IF s = <<>> THEN s
    ELSE IF s[Len(s)] \in WhiteSpace THEN TrimEnd(SubSeq(s, 1, Len(s) - 1)) ELSE s

\* String.prototype.trim
trim(s) == TrimEnd(TrimStart(s))

DigitChars == <<"0", "1", "2", "3", "4", "5", "6", "7", "8", "9">>

IsDigit(c) == \E i \in 1..10 : DigitChars[i] = c

DigitVal(c) == (CHOOSE i \in 1..10 : DigitChars[i] = c) - 1

NaN == [nan |-> TRUE, val |-> 0]

RECURSIVE ParseDigits(_, _, _)
ParseDigits(s, acc, seen) ==
    IF s # <<>> /\ IsDigit(Head(s))
    THEN ParseDigits(Tail(s), acc * 10 + DigitVal(Head(s)), TRUE)
    ELSE IF seen THEN [nan |-> FALSE, val |-> acc] ELSE NaN

\* parseInt(string, 10): leading white space is skipped, a sign is read,
\* then the longest prefix of digits; what follows the digits is ignored.
parseInt(s) ==
    LET t   == TrimStart(s)
        sgn == t # <<>> /\ Head(t) \in {"+", "-"}
        neg == t # <<>> /\ Head(t) = "-"
        r   == ParseDigits(IF sgn THEN Tail(t) ELSE t, 0, FALSE)
    IN  IF r.nan THEN NaN
        ELSE [nan |-> FALSE, val |-> IF neg THEN 0 - r.val ELSE r.val]

isNaN(n) == n.nan

----------------------------------------------------------------------------
(* Errors *)

NoError == [name |-> "", message |-> <<>>]

\* new Error(message)
Error(m) == [name |-> "Error", message |-> m]

\* new TodoNotFoundException(message)
TodoNotFoundException(m) == [name |-> "TodoNotFoundException", message |-> m]

\* a message of the storage engine without 'required' and 'must be'
StoreBusy == "SQLITE_BUSY: database is locked"

\* a message of the storage engine that contains 'required'
StoreRequires == "SQLITE_ERROR: a JOIN clause is required before ON"

\* the messages that contain 'required': literals of the source, and
\* StoreRequires
HasRequired ==
    { StoreRequires,
      "Todo data is required",
      "Title is required and must be a non-empty string",
      "Title is required and must be a string",
      "Update data is required and must contain at least one field" }

\* the message literals of the source that contain 'must be'
HasMustBe ==
    { "Title is required and must be a non-empty string",
      "Title is required and must be a string",
      "Title must be a non-empty string",
      "Title must be a string",
      "Description must be a string",
      "Completed must be a boolean" }

\* message.includes(needle), needle one of 'required', 'must be'
includes(m, needle) ==
    \E i \in 1..Len(m) :
        m[i] \in (IF needle = "required" THEN HasRequired ELSE HasMustBe)

----------------------------------------------------------------------------
(* models.js: class Todo over table 'todo' *)

NullTodo == [id |-> 0, title |-> Undefined, description |-> Undefined,
             completed |-> Undefined]

Max(S) == CHOOSE x \in S : \A y \in S : y <= x

\* a plain integer primary key: one more than the largest id now in the table
NextIdRowid(tbl, seq) == Max(DOMAIN tbl \cup {0}) + 1

\* id is table.increments('id').primary(), an AUTOINCREMENT key: one more
\* than the largest id the table has ever held
NextId(tbl, seq) == Max(DOMAIN tbl \cup {seq}) + 1

Todo_findById(tbl, id) == IF id \in DOMAIN tbl THEN tbl[id] ELSE NullTodo

\* Todo.create with completed: data.completed || true
Todo_createCompleted(tbl, seq, data) ==
    LET id  == NextId(tbl, seq)
        row == [id          |-> id,
                title       |-> data.title,
                description |-> OrElse(data.description, Str(<<>>)),
                completed   |-> OrElse(data.completed, Bool(TRUE))]
        new == [i \in DOMAIN tbl \cup {id} |-> IF i = id THEN row ELSE tbl[i]]
    IN  [err |-> NoError, val |-> Todo_findById(new, id), db |-> new,
         seq |-> Max({seq, id})]

Todo_create(tbl, seq, data) ==
    LET id  == NextId(tbl, seq)
        row == [id          |-> id,
                title       |-> data.title,
                description |-> OrElse(data.description, Str(<<>>)),
                completed   |-> OrElse(data.completed, Bool(FALSE))]
        new == [i \in DOMAIN tbl \cup {id} |-> IF i = id THEN row ELSE tbl[i]]
    IN  [err |-> NoError, val |-> Todo_findById(new, id), db |-> new,
         seq |-> Max({seq, id})]

\* Todo.update that tests the keys for truth, not against undefined
SetColumnsTruthy(row, data) ==
    [id          |-> row.id,
     title       |-> IF Truthy(data.title) THEN data.title ELSE row.title,
     description |-> IF Truthy(data.description) THEN data.description
                     ELSE row.description,
     completed   |-> IF data.completed # Undefined THEN data.completed
                     ELSE row.completed]

\* Todo.update with the default of Todo.create applied to description
SetColumnsDefaulting(row, data) ==
    [id          |-> row.id,
     title       |-> IF data.title # Undefined THEN data.title ELSE row.title,
     description |-> OrElse(data.description, Str(<<>>)),
     completed   |-> IF data.completed # Undefined THEN data.completed
                     ELSE row.completed]

\* the row after SET of the columns that updateData holds
SetColumns(row, data) ==
    [id          |-> row.id,
     title       |-> IF data.title # Undefined THEN data.title ELSE row.title,
     description |-> IF data.description # Undefined THEN data.description
                     ELSE row.description,
     completed   |-> IF data.completed # Undefined THEN data.completed
                     ELSE row.completed]

EmptyUpdate == <<"Empty .update() call detected!">>

\* Todo.update without where({ id }): every row is written
Todo_updateAllRows(tbl, seq, id, data) ==
    IF data.title = Undefined /\ data.description = Undefined
       /\ data.completed = Undefined
    THEN [err |-> Error(EmptyUpdate), val |-> NullTodo, db |-> tbl, seq |-> seq]
    ELSE IF DOMAIN tbl = {}
    THEN [err |-> NoError, val |-> NullTodo, db |-> tbl, seq |-> seq]
    ELSE LET new == [i \in DOMAIN tbl |-> SetColumns(tbl[i], data)]
         IN  [err |-> NoError, val |-> Todo_findById(new, id), db |-> new,
              seq |-> seq]

\* knex refuses to build an UPDATE without columns
Todo_update(tbl, seq, id, data) ==
    IF data.title = Undefined /\ data.description = Undefined
       /\ data.completed = Undefined
    THEN [err |-> Error(EmptyUpdate), val |-> NullTodo, db |-> tbl, seq |-> seq]
    ELSE IF id \notin DOMAIN tbl
    THEN [err |-> NoError, val |-> NullTodo, db |-> tbl, seq |-> seq]
    ELSE LET new == [tbl EXCEPT ![id] = SetColumns(tbl[id], data)]
         IN  [err |-> NoError, val |-> Todo_findById(new, id), db |-> new,
              seq |-> seq]

\* Todo.delete without where({ id }): every row is deleted
Todo_deleteAllRows(tbl, seq, id) ==
    [err |-> NoError, val |-> NullTodo, seq |-> seq,
     db  |-> [i \in {} |-> NullTodo],
     deleted |-> DOMAIN tbl # {}]

Todo_delete(tbl, seq, id) ==
    [err |-> NoError, val |-> NullTodo, seq |-> seq,
     db  |-> [i \in DOMAIN tbl \ {id} |-> tbl[i]],
     deleted |-> id \in DOMAIN tbl]

\* The orders in which a SELECT without ORDER BY may yield the rows of the
\* table: any order of its ids.
Scans(tbl) ==
    { p \in [1..Cardinality(DOMAIN tbl) -> DOMAIN tbl] :
          \A i, j \in DOMAIN p : i # j => p[i] # p[j] }

\* db(TODO_TABLE).select('*'), the rows in the order of the scan
Todo_findAll(tbl, scan) == [i \in DOMAIN scan |-> tbl[scan[i]]]

\* db(TODO_TABLE).where({ completed }).select('*')
Todo_findByStatus(tbl, scan, completed) ==
    LET Matches(row) == row.completed = Bool(completed)
    IN  SelectSeq(Todo_findAll(tbl, scan), Matches)

----------------------------------------------------------------------------
(* repositories.js: class TodoRepository *)

\* todos.sort without effect: the rows as the table yields them
SortByIdNone(rows) == rows

RECURSIVE SortById(_)
\* todos.sort((a, b) => a.id - b.id)
SortById(rows) ==
    IF rows = <<>> THEN <<>>
    ELSE LET m    == CHOOSE i \in 1..Len(rows) :
                         \A j \in 1..Len(rows) : rows[i].id <= rows[j].id
             rest == [i \in 1..(Len(rows) - 1) |->
                         IF i < m THEN rows[i] ELSE rows[i + 1]]
         IN  <<rows[m]>> \o SortById(rest)

TodoRepository_findAll(tbl, scan) == SortById(Todo_findAll(tbl, scan))

TodoRepository_findByStatus(tbl, scan, completed) ==
    SortById(Todo_findByStatus(tbl, scan, completed))

Fail(e, tbl, seq) == [err |-> e, val |-> NullTodo, db |-> tbl, seq |-> seq]

NotFoundMessage(todoId) == <<"Todo with id '", ToString(todoId), "' not found">>

\* catch (error): a TodoNotFoundException is rethrown, anything else wrapped
Rethrow(r, prefix) ==
    IF r.err = NoError \/ r.err.name = "TodoNotFoundException" THEN r
    ELSE [r EXCEPT !.err = Error(<<prefix>> \o r.err.message)]

TodoRepository_findById(tbl, seq, todoId) ==
    LET found == Todo_findById(tbl, todoId)
    IN  IF found = NullTodo
        THEN Fail(TodoNotFoundException(NotFoundMessage(todoId)), tbl, seq)
        ELSE [err |-> NoError, val |-> found, db |-> tbl, seq |-> seq]

\* create(title, description = ''): the default replaces undefined only
TodoRepository_create(tbl, seq, title, description) ==
    Rethrow(Todo_create(tbl, seq,
                [title       |-> title,
                 description |-> IF description = Undefined THEN Str(<<>>)
                                 ELSE description,
                 completed   |-> Bool(FALSE)]),
            "Failed to create todo: ")

TodoRepository_updateById(tbl, seq, todoId, updateData) ==
    LET existingTodo == TodoRepository_findById(tbl, seq, todoId)
        updatedTodo  == Todo_update(tbl, seq, todoId, updateData)
    IN  Rethrow(
          IF existingTodo.err # NoError THEN existingTodo
          ELSE IF updatedTodo.err = NoError /\ updatedTodo.val = NullTodo
          THEN Fail(TodoNotFoundException(NotFoundMessage(todoId)), tbl, seq)
          ELSE updatedTodo,
          "Failed to update todo: ")

TodoRepository_deleteById(tbl, seq, todoId) ==
    LET existingTodo == TodoRepository_findById(tbl, seq, todoId)
    IN  Rethrow(
          IF existingTodo.err # NoError THEN existingTodo
          ELSE Todo_delete(tbl, seq, todoId),
          "Failed to delete todo: ")

\* the update of a toggle that sets completed: todo.completed
ToggleDataKept(todo) ==
    [title       |-> Undefined,
     description |-> Undefined,
     completed   |-> Bool(Truthy(todo.completed))]

\* { completed: !todo.completed }
ToggleData(todo) ==
    [title       |-> Undefined,
     description |-> Undefined,
     completed   |-> Bool(~Truthy(todo.completed))]

\* toggleCompletion that writes completed: true whatever the record holds
TodoRepository_markCompleted(tbl, seq, todoId) ==
    LET found == TodoRepository_findById(tbl, seq, todoId)
    IN  Rethrow(
          IF found.err # NoError THEN found
          ELSE Todo_update(tbl, seq, todoId,
                   [title       |-> Undefined,
                    description |-> Undefined,
                    completed   |-> Bool(TRUE)]),
          "Failed to toggle todo completion: ")

TodoRepository_toggleCompletion(tbl, seq, todoId) ==
    LET found == TodoRepository_findById(tbl, seq, todoId)
    IN  Rethrow(
          IF found.err # NoError THEN found
          ELSE Todo_update(tbl, seq, todoId, ToggleData(found.val)),
          "Failed to toggle todo completion: ")

----------------------------------------------------------------------------
(* services.js: class TodoService *)

\* a request body: present is FALSE when the request carries none; a key the
\* body does not hold is Undefined; extra tells that it holds a key other
\* than title, description and completed
Body(t, d, c, x) ==
    [present |-> TRUE, title |-> t, description |-> d, completed |-> c,
     extra |-> x]

NoBody ==
    [present |-> FALSE, title |-> Undefined, description |-> Undefined,
     completed |-> Undefined, extra |-> FALSE]

\* Object.keys(body).length
KeysLength(body) ==
    (IF body.title # Undefined THEN 1 ELSE 0)
    + (IF body.description # Undefined THEN 1 ELSE 0)
    + (IF body.completed # Undefined THEN 1 ELSE 0)
    + (IF body.extra THEN 1 ELSE 0)

TypeError == [name |-> "TypeError", message |-> <<"Cannot read properties">>]

toResponseFormat(r) ==
    IF r.err # NoError THEN r
    ELSE IF r.val = NullTodo THEN [r EXCEPT !.err = TypeError]
    ELSE r

\* validateTodoData without the test of title.trim()
validateTodoDataNoTrim(todoData) ==
    IF ~todoData.present THEN Error(<<"Todo data is required">>)
    ELSE IF ~Truthy(todoData.title) \/ TypeOf(todoData.title) # "string"
    THEN Error(<<"Title is required and must be a non-empty string">>)
    ELSE IF todoData.description # Undefined
            /\ TypeOf(todoData.description) # "string"
    THEN Error(<<"Description must be a string">>)
    ELSE IF todoData.completed # Undefined
            /\ TypeOf(todoData.completed) # "boolean"
    THEN Error(<<"Completed must be a boolean">>)
    ELSE NoError

validateTodoData(todoData) ==
    IF ~todoData.present THEN Error(<<"Todo data is required">>)
    ELSE IF ~Truthy(todoData.title) \/ TypeOf(todoData.title) # "string"
            \/ trim(todoData.title.str) = <<>>
    THEN Error(<<"Title is required and must be a non-empty string">>)
    ELSE IF todoData.description # Undefined
            /\ TypeOf(todoData.description) # "string"
    THEN Error(<<"Description must be a string">>)
    ELSE IF todoData.completed # Undefined
            /\ TypeOf(todoData.completed) # "boolean"
    THEN Error(<<"Completed must be a boolean">>)
    ELSE NoError

\* validateUpdateData with the test of title of TodoService.updateTodo
validateUpdateDataTypeOnly(updateData) ==
    IF ~updateData.present \/ KeysLength(updateData) = 0
    THEN Error(<<"Update data is required and must contain at least one field">>)
    ELSE IF updateData.title # Undefined
            /\ TypeOf(updateData.title) # "string"
    THEN Error(<<"Title must be a non-empty string">>)
    ELSE IF updateData.description # Undefined
            /\ TypeOf(updateData.description) # "string"
    THEN Error(<<"Description must be a string">>)
    ELSE IF updateData.completed # Undefined
            /\ TypeOf(updateData.completed) # "boolean"
    THEN Error(<<"Completed must be a boolean">>)
    ELSE NoError

validateUpdateData(updateData) ==
    IF ~updateData.present \/ KeysLength(updateData) = 0
    THEN Error(<<"Update data is required and must contain at least one field">>)
    ELSE IF updateData.title # Undefined
            /\ (TypeOf(updateData.title) # "string"
                \/ trim(updateData.title.str) = <<>>)
    THEN Error(<<"Title must be a non-empty string">>)
    ELSE IF updateData.description # Undefined
            /\ TypeOf(updateData.description) # "string"
    THEN Error(<<"Description must be a string">>)
    ELSE IF updateData.completed # Undefined
            /\ TypeOf(updateData.completed) # "boolean"
    THEN Error(<<"Completed must be a boolean">>)
    ELSE NoError

TodoService_getTodoById(tbl, seq, todoId) ==
    toResponseFormat(TodoRepository_findById(tbl, seq, todoId))

\* createTodo that hands the whole body to Todo.create, completed included
TodoService_createTodoAsGiven(tbl, seq, todoData) ==
    LET r == IF ~todoData.present THEN Fail(TypeError, tbl, seq)
             ELSE IF ~Truthy(todoData.title)
                     \/ TypeOf(todoData.title) # "string"
             THEN Fail(Error(<<"Title is required and must be a string">>),
                       tbl, seq)
             ELSE toResponseFormat(
                    Todo_create(tbl, seq,
                        [title       |-> todoData.title,
                         description |-> todoData.description,
                         completed   |-> todoData.completed]))
    IN  IF r.err = NoError THEN r
        ELSE [r EXCEPT !.err =
                 Error(<<"Failed to create todo: ">> \o r.err.message)]

\* every error of createTodo is wrapped by its catch
TodoService_createTodo(tbl, seq, todoData) ==
    LET r == IF ~todoData.present THEN Fail(TypeError, tbl, seq)
             ELSE IF ~Truthy(todoData.title)
                     \/ TypeOf(todoData.title) # "string"
             THEN Fail(Error(<<"Title is required and must be a string">>),
                       tbl, seq)
             ELSE toResponseFormat(
                    TodoRepository_create(tbl, seq, todoData.title,
                        OrElse(todoData.description, Str(<<>>))))
    IN  IF r.err = NoError THEN r
        ELSE [r EXCEPT !.err =
                 Error(<<"Failed to create todo: ">> \o r.err.message)]

TodoService_updateTodo(tbl, seq, todoId, updateData) ==
    IF ~updateData.present THEN Fail(TypeError, tbl, seq)
    ELSE IF updateData.title # Undefined
            /\ TypeOf(updateData.title) # "string"
    THEN Fail(Error(<<"Title must be a string">>), tbl, seq)
    ELSE IF updateData.description # Undefined
            /\ TypeOf(updateData.description) # "string"
    THEN Fail(Error(<<"Description must be a string">>), tbl, seq)
    ELSE IF updateData.completed # Undefined
            /\ TypeOf(updateData.completed) # "boolean"
    THEN Fail(Error(<<"Completed must be a boolean">>), tbl, seq)
    ELSE toResponseFormat(
           TodoRepository_updateById(tbl, seq, todoId, updateData))

TodoService_toggleTodoCompletion(tbl, seq, todoId) ==
    toResponseFormat(TodoRepository_toggleCompletion(tbl, seq, todoId))

DeletedMessage(todoId) == <<"Todo with id '", ToString(todoId), "' deleted">>

TodoService_deleteTodo(tbl, seq, todoId) ==
    TodoRepository_deleteById(tbl, seq, todoId)

\* todos.map(todo => this.toResponseFormat(todo))
TodoService_getAllTodos(tbl, scan) == TodoRepository_findAll(tbl, scan)

NoStats == [total |-> 0, completed |-> 0, pending |-> 0]

\* the statistics with pending not reduced by completed
StatsOfPendingAll(rows) ==
    LET IsCompleted(row) == Truthy(row.completed)
        completed == Len(SelectSeq(rows, IsCompleted))
    IN  [total |-> Len(rows), completed |-> completed,
         pending |-> Len(rows)]

\* getTodoStats, from the allTodos it has read
StatsOf(rows) ==
    LET IsCompleted(row) == Truthy(row.completed)
        completed == Len(SelectSeq(rows, IsCompleted))
    IN  [total |-> Len(rows), completed |-> completed,
         pending |-> Len(rows) - completed]

TodoService_getTodoStats(tbl, scan) == StatsOf(TodoRepository_findAll(tbl, scan))

TodoService_getTodosByStatus(tbl, scan, completed) ==
    TodoRepository_findByStatus(tbl, scan, completed)

----------------------------------------------------------------------------
(* controllers.js: class TodoController *)

\* a response: the status code and, of the body, what the route sends
Reply(code, error, message, row) ==
    [code |-> code, error |-> error, message |-> message, todo |-> row,
     todos |-> <<>>, stats |-> NoStats]

\* reply.code(200).send(todos)
ReplyTodos(todos) == [Reply(200, "", <<>>, NullTodo) EXCEPT !.todos = todos]

\* reply.code(200).send(stats)
ReplyStats(stats) == [Reply(200, "", <<>>, NullTodo) EXCEPT !.stats = stats]

Sent(rep, r) == [reply |-> rep, db |-> r.db, seq |-> r.seq]

BadId == Reply(400, "Bad Request", <<"Todo ID must be a valid number">>, NullTodo)

NotFound(err) == Reply(404, "Not Found", err.message, NullTodo)

BadRequest(err) == Reply(400, "Bad Request", err.message, NullTodo)

\* handleError that logs the error and sends nothing
handleErrorSilent(err) == Reply(0, "", <<>>, NullTodo)

\* the original message is logged, a generic one is sent
handleError(err) ==
    Reply(500, "Internal Server Error", <<"An unexpected error occurred">>,
          NullTodo)

\* parseInt that yields 0 where no digit is read
parseIntOrZero(s) ==
    LET t   == TrimStart(s)
        sgn == t # <<>> /\ Head(t) \in {"+", "-"}
        neg == t # <<>> /\ Head(t) = "-"
        r   == ParseDigits(IF sgn THEN Tail(t) ELSE t, 0, FALSE)
    IN  [nan |-> FALSE, val |-> IF neg THEN 0 - r.val ELSE r.val]

\* const id = parseInt(todoId, 10)
ParseTodoId(todoId) == parseInt(todoId)

TodoController_getTodo(tbl, seq, todoId) ==
    LET id == ParseTodoId(todoId)
        r  == TodoService_getTodoById(tbl, seq, id.val)
    IN  IF isNaN(id) THEN [reply |-> BadId, db |-> tbl, seq |-> seq]
        ELSE IF r.err = NoError THEN Sent(Reply(200, "", <<>>, r.val), r)
        ELSE IF r.err.name = "TodoNotFoundException" THEN Sent(NotFound(r.err), r)
        ELSE Sent(handleError(r.err), r)

TodoController_createTodo(tbl, seq, todoData) ==
    LET v == validateTodoData(todoData)
        r == IF v # NoError THEN Fail(v, tbl, seq)
             ELSE TodoService_createTodo(tbl, seq, todoData)
    IN  IF r.err = NoError THEN Sent(Reply(200, "", <<>>, r.val), r)
        ELSE IF includes(r.err.message, "required")
                \/ includes(r.err.message, "must be")
        THEN Sent(BadRequest(r.err), r)
        ELSE Sent(handleError(r.err), r)

TodoController_updateTodo(tbl, seq, todoId, updateData) ==
    LET id == ParseTodoId(todoId)
        v  == validateUpdateData(updateData)
        r  == IF v # NoError THEN Fail(v, tbl, seq)
              ELSE TodoService_updateTodo(tbl, seq, id.val, updateData)
    IN  IF isNaN(id) THEN [reply |-> BadId, db |-> tbl, seq |-> seq]
        ELSE IF r.err = NoError THEN Sent(Reply(200, "", <<>>, r.val), r)
        ELSE IF r.err.name = "TodoNotFoundException" THEN Sent(NotFound(r.err), r)
        ELSE IF includes(r.err.message, "must be")
                \/ includes(r.err.message, "required")
        THEN Sent(BadRequest(r.err), r)
        ELSE Sent(handleError(r.err), r)

TodoController_toggleTodoCompletion(tbl, seq, todoId) ==
    LET id == ParseTodoId(todoId)
        r  == TodoService_toggleTodoCompletion(tbl, seq, id.val)
    IN  IF isNaN(id) THEN [reply |-> BadId, db |-> tbl, seq |-> seq]
        ELSE IF r.err = NoError THEN Sent(Reply(200, "", <<>>, r.val), r)
        ELSE IF r.err.name = "TodoNotFoundException" THEN Sent(NotFound(r.err), r)
        ELSE Sent(handleError(r.err), r)

TodoController_deleteTodo(tbl, seq, todoId) ==
    LET id == ParseTodoId(todoId)
        r  == TodoService_deleteTodo(tbl, seq, id.val)
    IN  IF isNaN(id) THEN [reply |-> BadId, db |-> tbl, seq |-> seq]
        ELSE IF r.err = NoError
        THEN Sent(Reply(200, "", DeletedMessage(id.val), NullTodo), r)
        ELSE IF r.err.name = "TodoNotFoundException" THEN Sent(NotFound(r.err), r)
        ELSE Sent(handleError(r.err), r)

TodoController_getAllTodos(tbl, seq, scan) ==
    [reply |-> ReplyTodos(TodoService_getAllTodos(tbl, scan)),
     db |-> tbl, seq |-> seq]

TodoController_getTodoStats(tbl, seq, scan) ==
    [reply |-> ReplyStats(TodoService_getTodoStats(tbl, scan)),
     db |-> tbl, seq |-> seq]

QueryTrue  == Str(<<"t", "r", "u", "e">>)
QueryFalse == Str(<<"f", "a", "l", "s", "e">>)

BadStatus ==
    Reply(400, "Bad Request",
          <<"Completed parameter must be \"true\" or \"false\"">>, NullTodo)

\* getTodosByStatus that takes every flag other than 'true' for false
TodoController_getTodosByStatusLenient(tbl, seq, scan, completed) ==
    [reply |-> ReplyTodos(TodoService_getTodosByStatus(tbl, scan,
                              completed = QueryTrue)),
     db |-> tbl, seq |-> seq]

TodoController_getTodosByStatus(tbl, seq, scan, completed) ==
    IF completed = QueryTrue
    THEN [reply |-> ReplyTodos(TodoService_getTodosByStatus(tbl, scan, TRUE)),
          db |-> tbl, seq |-> seq]
    ELSE IF completed = QueryFalse
    THEN [reply |-> ReplyTodos(TodoService_getTodosByStatus(tbl, scan, FALSE)),
          db |-> tbl, seq |-> seq]
    ELSE [reply |-> BadStatus, db |-> tbl, seq |-> seq]

----------------------------------------------------------------------------
(* The requests *)

RECURSIVE Decimal(_)
\* the decimal digits of a natural number
Decimal(n) ==
    IF n < 10 THEN <<DigitChars[n + 1]>>
    ELSE Decimal(n \div 10) \o <<DigitChars[(n % 10) + 1]>>

\* the path parameter :todoId, a raw string
TodoIds ==
    { Decimal(n) : n \in 1..MaxCreates }
    \cup { <<"a", "b", "c">>, <<"1", "2", "a", "b", "c">>, <<"1", ".", "5">>,
           <<"-", "1">> }

LongTitle == [i \in 1..(TITLE_MAX + 1) |-> "x"]

TitleA  == Str(<<"A">>)
TitleB  == Str(<<" ", "B", " ">>)
Blank   == Str(<<" ", " ">>)
DescD   == Str(<<" ", "d", " ">>)
Empty   == Str(<<>>)

CreateBodies ==
    { NoBody,
      Body(Undefined, DescD, Undefined, FALSE),
      Body(Empty, Undefined, Undefined, FALSE),
      Body(Blank, Undefined, Undefined, FALSE),
      Body(Num(5), Undefined, Undefined, FALSE),
      Body(TitleA, Undefined, Undefined, FALSE),
      Body(TitleA, Empty, Undefined, FALSE),
      Body(TitleB, DescD, Undefined, FALSE),
      Body(Str(LongTitle), Undefined, Undefined, FALSE),
      Body(TitleA, Num(5), Undefined, FALSE),
      Body(TitleA, Undefined, Bool(TRUE), FALSE),
      Body(TitleA, DescD, Undefined, TRUE) }

UpdateBodies ==
    { NoBody,
      Body(Undefined, Undefined, Undefined, FALSE),
      Body(Undefined, Undefined, Undefined, TRUE),
      Body(TitleB, Undefined, Undefined, FALSE),
      Body(Blank, Undefined, Undefined, FALSE),
      Body(Num(5), Undefined, Undefined, FALSE),
      Body(Undefined, Empty, Undefined, FALSE),
      Body(Undefined, DescD, Undefined, FALSE),
      Body(Undefined, Undefined, Bool(TRUE), FALSE),
      Body(Undefined, Undefined, Bool(FALSE), FALSE),
      Body(Undefined, Undefined, Str(<<"y">>), FALSE),
      Body(TitleA, DescD, Bool(TRUE), FALSE) }

Request(op, todoId, body) ==
    [op |-> op, todoId |-> todoId, body |-> body, completed |-> Undefined]

\* GET /api/todos/filter/status?completed=...
StatusRequest(completed) ==
    [Request("filter", <<>>, NoBody) EXCEPT !.completed = completed]

\* the query parameter completed: absent, or a raw string
StatusFlags ==
    { Undefined, QueryTrue, QueryFalse, Str(<<"T", "r", "u", "e">>),
      Str(<<"1">>), Str(<<>>) }

NoRequest == Request("", <<>>, NoBody)

NoTodos == [i \in {} |-> NullTodo]

\* no response is outstanding
NoReply == Reply(0, "", <<>>, NullTodo)

----------------------------------------------------------------------------
(* The state machine: one action per route of registerRoutes *)

\* no create or toggle is remembered
NoPrev ==
    [op |-> "", id |-> 0, orig |-> FALSE, todo |-> NullTodo, body |-> NoBody]

\* the callers whose requests are in flight together
Callers == {"a", "b"}

\* a caller without a request: op is what it asked for, id and data the
\* arguments, pc the store call it waits for, todo the record it has read,
\* total the count it has read, flag the status it filters by; gone and
\* thrown are history: the record was not in the table any more when the
\* write was made, and the message with which a store call failed
NoCall ==
    [op |-> "", id |-> 0, data |-> NoBody, pc |-> "idle", todo |-> NullTodo,
     total |-> 0, flag |-> FALSE, gone |-> FALSE, thrown |-> <<>>,
     reply |-> NoReply]

Init ==
    /\ calls = [c \in Callers |-> NoCall]
    /\ prev = NoPrev
    /\ pc = "idle"
    /\ allTodos = <<>>
    /\ db = NoTodos
    /\ sqlite_sequence = 0
    /\ created = <<>>
    /\ before = NoTodos
    /\ request = NoRequest
    /\ reply = NoReply

\* the handler has run: its reply is sent and its writes are in the table
\* The client is sequential: it sends a request when it has read the response
\* to the one before.
Handled(req, result) ==
    /\ reply = NoReply
    /\ UNCHANGED <<prev, pc, allTodos, calls>>
    /\ \E out \in {result} :
          /\ request' = req
          /\ reply' = out.reply
          /\ before' = db
          /\ db' = out.db
          /\ sqlite_sequence' = out.seq
          /\ created' = IF DOMAIN out.db \subseteq DOMAIN db THEN created
                        ELSE created \o <<out.reply.todo.id>>

\* GET /api/todos/:todoId
GetTodo ==
    \E todoId \in TodoIds :
        Handled(Request("get", todoId, NoBody),
                TodoController_getTodo(db, sqlite_sequence, todoId))

\* POST /api/todos
CreateTodo ==
    /\ Len(created) < MaxCreates
    /\ \E body \in CreateBodies :
        Handled(Request("create", <<>>, body),
                TodoController_createTodo(db, sqlite_sequence, body))

\* PUT /api/todos/:todoId
UpdateTodo ==
    \E todoId \in TodoIds, body \in UpdateBodies :
        Handled(Request("update", todoId, body),
                TodoController_updateTodo(db, sqlite_sequence, todoId, body))

\* POST /api/todos/:todoId/toggle
ToggleTodoCompletion ==
    \E todoId \in TodoIds :
        Handled(Request("toggle", todoId, NoBody),
                TodoController_toggleTodoCompletion(db, sqlite_sequence, todoId))

\* DELETE /api/todos/:todoId
DeleteTodo ==
    \E todoId \in TodoIds :
        Handled(Request("delete", todoId, NoBody),
                TodoController_deleteTodo(db, sqlite_sequence, todoId))

\* GET /api/todos
GetAllTodos ==
    \E scan \in Scans(db) :
        Handled(Request("list", <<>>, NoBody),
                TodoController_getAllTodos(db, sqlite_sequence, scan))

\* GET /api/todos/stats
GetTodoStats ==
    \E scan \in Scans(db) :
        Handled(Request("stats", <<>>, NoBody),
                TodoController_getTodoStats(db, sqlite_sequence, scan))

\* GET /api/todos/filter/status
GetTodosByStatus ==
    \E scan \in Scans(db), completed \in StatusFlags :
        Handled(StatusRequest(completed),
                TodoController_getTodosByStatus(db, sqlite_sequence, scan,
                                                completed))

\* the client reads the response
ReadReply ==
    /\ reply # NoReply
    /\ request' = NoRequest
    /\ reply' = NoReply
    /\ before' = db
    /\ UNCHANGED <<db, sqlite_sequence, created, prev, pc, allTodos, calls>>

Next ==
    \/ GetTodo
    \/ CreateTodo
    \/ UpdateTodo
    \/ ToggleTodoCompletion
    \/ DeleteTodo
    \/ GetAllTodos
    \/ GetTodoStats
    \/ GetTodosByStatus
    \/ ReadReply

Spec == Init /\ [][Next]_vars

----------------------------------------------------------------------------
(* The client that remembers: two requests in sequence on one id *)

\* what the client remembers once it has read the response rep to req, sent
\* when the table was tbl: a create or toggle that succeeded; nothing, when
\* req named the remembered id otherwise
Remembered(req, rep, tbl) ==
    IF req.op = "create" /\ rep.code = 200
    THEN [op |-> "create", id |-> rep.todo.id, orig |-> FALSE,
          todo |-> rep.todo, body |-> req.body]
    ELSE IF req.op = "toggle" /\ rep.code = 200
    THEN [op |-> "toggle", id |-> rep.todo.id,
          orig |-> tbl[rep.todo.id].completed.bool,
          todo |-> rep.todo, body |-> NoBody]
    ELSE IF req.op \in {"get", "update", "toggle", "delete"}
            /\ ~isNaN(ParseTodoId(req.todoId))
            /\ ParseTodoId(req.todoId).val = prev.id
    THEN NoPrev
    ELSE prev

\* the client reads the response and remembers it
ReadReplyRemember ==
    /\ reply # NoReply
    /\ prev' = Remembered(request, reply, before)
    /\ request' = NoRequest
    /\ reply' = NoReply
    /\ before' = db
    /\ UNCHANGED <<db, sqlite_sequence, created, pc, allTodos, calls>>

\* the bodies this client posts: two that create a record, one refused
RememberedCreateBodies ==
    { Body(TitleA, Undefined, Undefined, FALSE),
      Body(TitleB, DescD, Undefined, FALSE),
      Body(Empty, Undefined, Undefined, FALSE) }

\* the bodies this client puts: completed set and cleared, a title, none
RememberedUpdateBodies ==
    { Body(Undefined, Undefined, Bool(TRUE), FALSE),
      Body(Undefined, Undefined, Bool(FALSE), FALSE),
      Body(TitleA, Undefined, Undefined, FALSE),
      NoBody }

\* POST /api/todos
CreateRemembered ==
    /\ Len(created) < MaxCreates
    /\ \E body \in RememberedCreateBodies :
        Handled(Request("create", <<>>, body),
                TodoController_createTodo(db, sqlite_sequence, body))

\* PUT /api/todos/:todoId
UpdateRemembered ==
    \E todoId \in TodoIds, body \in RememberedUpdateBodies :
        Handled(Request("update", todoId, body),
                TodoController_updateTodo(db, sqlite_sequence, todoId, body))

NextHist ==
    \/ GetTodo
    \/ CreateRemembered
    \/ UpdateRemembered
    \/ ToggleTodoCompletion
    \/ DeleteTodo
    \/ ReadReplyRemember

SpecHist == Init /\ [][NextHist]_vars

----------------------------------------------------------------------------
(* getTodoStats in two steps, while other clients' requests are handled *)

\* const allTodos = await this.repository.findAll()
StatsRead ==
    /\ pc = "idle"
    /\ reply = NoReply
    /\ \E scan \in Scans(db) : allTodos' = TodoRepository_findAll(db, scan)
    /\ pc' = "read"
    /\ request' = Request("stats", <<>>, NoBody)
    /\ before' = db
    /\ UNCHANGED <<db, sqlite_sequence, created, reply, prev, calls>>

\* the rest of getTodoStats, and reply.code(200).send(stats)
StatsSend ==
    /\ pc = "read"
    /\ reply' = ReplyStats(StatsOf(allTodos))
    /\ pc' = "idle"
    /\ allTodos' = <<>>
    /\ UNCHANGED <<db, sqlite_sequence, created, before, request, prev, calls>>

\* a request of another client is handled: its writes are in the table
Meanwhile(result) ==
    /\ reply = NoReply
    /\ \E out \in {result} :
          /\ db' = out.db
          /\ sqlite_sequence' = out.seq
          /\ created' = IF DOMAIN out.db \subseteq DOMAIN db THEN created
                        ELSE created \o <<out.reply.todo.id>>
    /\ UNCHANGED <<before, request, reply, prev, pc, allTodos, calls>>

\* the bodies the other clients post
MeanwhileBodies ==
    { Body(TitleA, Undefined, Undefined, FALSE),
      Body(TitleB, DescD, Undefined, FALSE) }

MeanwhileCreate ==
    /\ Len(created) < MaxCreates
    /\ \E body \in MeanwhileBodies :
          Meanwhile(TodoController_createTodo(db, sqlite_sequence, body))

MeanwhileToggle ==
    \E todoId \in TodoIds :
        Meanwhile(TodoController_toggleTodoCompletion(db, sqlite_sequence,
                                                      todoId))

MeanwhileDelete ==
    \E todoId \in TodoIds :
        Meanwhile(TodoController_deleteTodo(db, sqlite_sequence, todoId))

NextStats ==
    \/ StatsRead
    \/ StatsSend
    \/ MeanwhileCreate
    \/ MeanwhileToggle
    \/ MeanwhileDelete
    \/ ReadReply

SpecStats == Init /\ [][NextStats]_vars

----------------------------------------------------------------------------
(* Two requests in flight together: each handler stops at its store calls *)

\* the requests the callers send: their ids are numerals, their bodies valid
RaceBodies == { Body(TitleA, Undefined, Undefined, FALSE) }

RaceUpdates == { Body(Undefined, Undefined, Bool(TRUE), FALSE) }

\* the store call a request waits for first
FirstCall(op) ==
    IF op = "create" THEN "write"
    ELSE IF op = "getStats" THEN "total"
    ELSE IF op \in {"list", "stats", "filter"} THEN "select"
    ELSE "find"

\* catch (error) of updateTodo, toggleTodoCompletion and createTodo, for the
\* errors of this section: 404 for a TodoNotFoundException, 500 otherwise
CaughtReply(r) ==
    IF r.err = NoError THEN Reply(200, "", <<>>, r.val)
    ELSE IF r.err.name = "TodoNotFoundException" THEN NotFound(r.err)
    ELSE handleError(r.err)

\* the reply when updateById hands null on as toggleCompletion does
ReturnedUnchecked(op, id, row) ==
    CaughtReply(toResponseFormat(
        [err |-> NoError, val |-> row, db |-> db, seq |-> sqlite_sequence]))

\* the reply once Todo.create or Todo.update has returned row, NullTodo for
\* null: updateById throws TodoNotFoundException on null, toggleCompletion
\* and create hand null on to toResponseFormat
Returned(op, id, row) ==
    LET r == [err |-> NoError, val |-> row, db |-> db, seq |-> sqlite_sequence]
    IN  IF op = "update" /\ row = NullTodo
        THEN CaughtReply(Fail(TodoNotFoundException(NotFoundMessage(id)),
                              db, sqlite_sequence))
        ELSE CaughtReply(toResponseFormat(r))

\* count('* as count')
Todo_count(tbl) == Cardinality(DOMAIN tbl)

\* where({ completed: true }).count('* as count')
Todo_countCompleted(tbl) ==
    Cardinality({i \in DOMAIN tbl : tbl[i].completed = Bool(TRUE)})

\* Todo.getStats returning the count of completed records for pending
Todo_getStatsSwapped(total, completed) ==
    [total |-> total, completed |-> completed, pending |-> completed]

\* the object Todo.getStats returns from its two counts
Todo_getStats(total, completed) ==
    [total |-> total, completed |-> completed, pending |-> total - completed]

\* the prefixes the catch blocks of repository and service put before the
\* message of an error thrown by the store call at
Prefixes(op, at) ==
    IF op = "get" THEN <<"Failed to fetch todo by ID: ">>
    ELSE IF op = "create"
    THEN <<"Failed to create todo: ", "Failed to create todo: ">>
    ELSE IF op = "list"
    THEN <<"Failed to get all todos: ", "Failed to fetch todos: ">>
    ELSE IF op = "stats"
    THEN <<"Failed to get todo statistics: ", "Failed to fetch todos: ">>
    ELSE IF op = "filter"
    THEN <<"Failed to get todos by status: ",
           "Failed to fetch todos by status: ">>
    ELSE <<IF op = "update" THEN "Failed to update todo: "
           ELSE IF op = "toggle" THEN "Failed to toggle todo completion: "
           ELSE "Failed to delete todo: ">>
         \o (IF at = "find" THEN <<"Failed to fetch todo by ID: ">> ELSE <<>>)

\* the reply when the store call at of the request op throws message:
\* the catch of createTodo and updateTodo tests the text of the message
Thrown(op, at, message) ==
    LET err == Error(Prefixes(op, at) \o message)
    IN  IF op \in {"create", "update"}
           /\ (includes(err.message, "required")
               \/ includes(err.message, "must be"))
        THEN BadRequest(err)
        ELSE handleError(err)

\* a caller sends a request
Send(c) ==
    /\ calls[c].pc = "idle"
    /\ \E op \in {"create", "update", "toggle", "delete", "getStats"},
          id \in 1..MaxCreates,
          data \in RaceBodies \cup RaceUpdates \cup {NoBody} :
          /\ op = "create" => /\ data \in RaceBodies
                              /\ id = 1
                              /\ Len(created) + Cardinality(
                                     {d \in Callers : calls[d].op = "create"
                                         /\ calls[d].pc = "write"}) < MaxCreates
          /\ op = "update" => data \in RaceUpdates
          /\ op \in {"toggle", "delete"} => data = NoBody
          /\ op = "getStats" => data = NoBody /\ id = 1
          /\ calls' = [calls EXCEPT ![c] =
                 [NoCall EXCEPT !.op = op,
                                !.id = IF op \in {"create", "getStats"} THEN 0
                                       ELSE id,
                                !.data = data, !.pc = FirstCall(op)]]
    /\ UNCHANGED <<db, sqlite_sequence, created, before, request, reply,
                   prev, pc, allTodos>>

\* the call is over: its reply is sent
Done(c, rep) == [calls EXCEPT ![c].pc = "done", ![c].reply = rep]

\* await this.findById(todoId) of updateById, toggleCompletion, deleteById
FindStep(c) ==
    /\ calls[c].pc = "find"
    /\ LET r == TodoRepository_findById(db, sqlite_sequence, calls[c].id)
       IN  calls' = IF r.err # NoError THEN Done(c, CaughtReply(r))
                    ELSE IF calls[c].op = "get"
                    THEN Done(c, CaughtReply(toResponseFormat(r)))
                    ELSE [calls EXCEPT ![c].pc = "write", ![c].todo = r.val]
    /\ UNCHANGED <<db, sqlite_sequence, created, before, request, reply,
                   prev, pc, allTodos>>

\* the insert of Todo.create, the update of Todo.update, the del of
\* Todo.delete
WriteStep(c) ==
    /\ calls[c].pc = "write"
    /\ LET op   == calls[c].op
           id   == calls[c].id
           gone == id \notin DOMAIN db
           w    == IF op = "create"
                   THEN TodoService_createTodo(db, sqlite_sequence,
                                               calls[c].data)
                   ELSE IF op = "update"
                   THEN Todo_update(db, sqlite_sequence, id, calls[c].data)
                   ELSE IF op = "toggle"
                   THEN Todo_update(db, sqlite_sequence, id,
                                    ToggleData(calls[c].todo))
                   ELSE Todo_delete(db, sqlite_sequence, id)
       IN  /\ db' = w.db
           /\ sqlite_sequence' = w.seq
           /\ created' = IF op = "create" THEN created \o <<w.val.id>>
                         ELSE created
           /\ calls' =
                 IF op = "create"
                 THEN [calls EXCEPT ![c].pc = "reread", ![c].id = w.val.id]
                 ELSE IF op = "delete"
                 THEN [Done(c, Reply(200, "", DeletedMessage(id), NullTodo))
                          EXCEPT ![c].gone = ~w.deleted]
                 ELSE IF w.err # NoError
                 THEN Done(c, Thrown(op, "write", w.err.message))
                 ELSE IF gone
                 THEN [Done(c, Returned(op, id, NullTodo))
                          EXCEPT ![c].gone = TRUE]
                 ELSE [calls EXCEPT ![c].pc = "reread"]
    /\ UNCHANGED <<before, request, reply, prev, pc, allTodos>>

\* return await Todo.findById(id) of Todo.create and Todo.update
RereadStep(c) ==
    /\ calls[c].pc = "reread"
    /\ calls' = Done(c, Returned(calls[c].op, calls[c].id,
                                 Todo_findById(db, calls[c].id)))
    /\ UNCHANGED <<db, sqlite_sequence, created, before, request, reply,
                   prev, pc, allTodos>>

\* const total = await db(TODO_TABLE).count('* as count').first()
TotalStep(c) ==
    /\ calls[c].pc = "total"
    /\ calls' = [calls EXCEPT ![c].pc = "completed",
                              ![c].total = Todo_count(db)]
    /\ UNCHANGED <<db, sqlite_sequence, created, before, request, reply,
                   prev, pc, allTodos>>

\* the second count of Todo.getStats, and its return
CompletedStep(c) ==
    /\ calls[c].pc = "completed"
    /\ calls' = Done(c, ReplyStats(Todo_getStats(calls[c].total,
                                                 Todo_countCompleted(db))))
    /\ UNCHANGED <<db, sqlite_sequence, created, before, request, reply,
                   prev, pc, allTodos>>

\* the callers have their replies and read them
ReadReplies ==
    /\ \A c \in Callers : calls[c].pc \in {"idle", "done"}
    /\ \E c \in Callers : calls[c].pc = "done"
    /\ calls' = [c \in Callers |-> NoCall]
    /\ before' = db
    /\ UNCHANGED <<db, sqlite_sequence, created, request, reply,
                   prev, pc, allTodos>>

NextRace ==
    \/ \E c \in Callers : Send(c)
    \/ \E c \in Callers : FindStep(c)
    \/ \E c \in Callers : WriteStep(c)
    \/ \E c \in Callers : RereadStep(c)
    \/ \E c \in Callers : TotalStep(c)
    \/ \E c \in Callers : CompletedStep(c)
    \/ ReadReplies

SpecRace == Init /\ [][NextRace]_vars

----------------------------------------------------------------------------
(* One request at a time against a store whose calls may fail *)

\* the messages a failing store call throws
StoreMessages == { <<StoreBusy>>, <<StoreRequires>> }

\* the bodies posted and put
AskedBodies ==
    { Body(TitleA, Undefined, Undefined, FALSE),
      Body(Empty, Undefined, Undefined, FALSE) }

AskedUpdates ==
    { Body(Undefined, Undefined, Bool(TRUE), FALSE),
      Body(Undefined, DescD, Undefined, FALSE),
      Body(Undefined, Undefined, Undefined, TRUE),
      NoBody }

\* the reply of a handler that returns before its first store call, NoReply
\* when it reaches the store
Refused(op, todoId, body, completed) ==
    IF op \in {"get", "update", "toggle", "delete"}
       /\ isNaN(ParseTodoId(todoId))
    THEN BadId
    ELSE IF op = "update" /\ validateUpdateData(body) # NoError
    THEN TodoController_updateTodo(db, sqlite_sequence, todoId, body).reply
    ELSE IF op = "create" /\ validateTodoData(body) # NoError
    THEN TodoController_createTodo(db, sqlite_sequence, body).reply
    ELSE IF op = "filter" /\ completed \notin {QueryTrue, QueryFalse}
    THEN BadStatus
    ELSE NoReply

\* a route handler is entered and runs up to its first store call
Ask(c) ==
    /\ calls[c].pc = "idle"
    /\ \A d \in Callers : calls[d].pc = "idle"
    /\ \E op \in {"get", "create", "update", "toggle", "delete", "list",
                   "stats", "filter"},
          todoId \in TodoIds \cup {<<>>},
          body \in AskedBodies \cup AskedUpdates,
          completed \in StatusFlags :
          /\ (todoId # <<>>) = (op \in {"get", "update", "toggle", "delete"})
          /\ IF op = "create"
             THEN body \in AskedBodies /\ Len(created) < MaxCreates
             ELSE IF op = "update" THEN body \in AskedUpdates
             ELSE body = NoBody
          /\ op # "filter" => completed = Undefined
          /\ LET refused == Refused(op, todoId, body, completed)
                 asked   == [calls EXCEPT ![c] =
                     [NoCall EXCEPT !.op = op,
                         !.id = IF todoId = <<>> THEN 0
                                ELSE ParseTodoId(todoId).val,
                         !.data = body,
                         !.flag = (completed = QueryTrue),
                         !.pc = FirstCall(op)]]
             IN  calls' = IF refused = NoReply THEN asked
                          ELSE [asked EXCEPT ![c].pc = "done",
                                             ![c].reply = refused]
    /\ UNCHANGED <<db, sqlite_sequence, created, before, request, reply,
                   prev, pc, allTodos>>

\* the select of findAll and of findByStatus
SelectStep(c) ==
    /\ calls[c].pc = "select"
    /\ \E scan \in Scans(db) :
          calls' = Done(c,
              IF calls[c].op = "list"
              THEN TodoController_getAllTodos(db, sqlite_sequence, scan).reply
              ELSE IF calls[c].op = "stats"
              THEN TodoController_getTodoStats(db, sqlite_sequence, scan).reply
              ELSE ReplyTodos(TodoService_getTodosByStatus(db, scan,
                                                           calls[c].flag)))
    /\ UNCHANGED <<db, sqlite_sequence, created, before, request, reply,
                   prev, pc, allTodos>>

\* the store call the request waits for fails: the promise is rejected
ThrowStep(c) ==
    /\ calls[c].pc \in {"find", "write", "reread", "select"}
    /\ \E message \in StoreMessages :
          calls' = [Done(c, Thrown(calls[c].op, calls[c].pc, message))
                       EXCEPT ![c].thrown = message]
    /\ UNCHANGED <<db, sqlite_sequence, created, before, request, reply,
                   prev, pc, allTodos>>

\* the caller that is alone with the store
Alone == CHOOSE c \in Callers : TRUE

\* the next step of the handler, whichever store call it waits for
Resume ==
    \/ FindStep(Alone)
    \/ WriteStep(Alone)
    \/ RereadStep(Alone)
    \/ SelectStep(Alone)

NextFault ==
    \/ Ask(Alone)
    \/ Resume
    \/ ThrowStep(Alone)
    \/ ReadReplies

SpecFault == Init /\ [][NextFault]_vars

\* a store call settles, and the continuation of a settled call is run
SpecFaultLive == SpecFault /\ WF_vars(Resume \/ ThrowStep(Alone))

----------------------------------------------------------------------------
(* Properties *)

TypeOK ==
    /\ \A i \in DOMAIN db :
          /\ db[i].id = i
          /\ db[i].title.type = "string"
          /\ db[i].description.type = "string"
          /\ db[i].completed.type = "boolean"
    /\ reply.code \in {0, 200, 400, 404, 500}

\* the operations that name a record by :todoId
ById == {"get", "update", "toggle", "delete"}

\* s is a decimal numeral: one digit or more, and nothing else
IsNumeral(s) == s # <<>> /\ \A i \in 1..Len(s) : IsDigit(s[i])

\* the request names, by a numeral, an id that the table did not hold
NamesAbsentId ==
    /\ request.op \in ById
    /\ \E n \in 1..MaxCreates :
          request.todoId = Decimal(n) /\ n \notin DOMAIN before

\* C1: for every id that is not in the store, get, update (with any body),
\* toggle and delete fail with 404 Not Found and leave the store unchanged.
C1_AbsentIdIsNotFound ==
    NamesAbsentId => reply.code = 404 /\ db = before

C4_TitleNeverBlank ==
    \A i \in DOMAIN db :
        db[i].title.type = "string" /\ trim(db[i].title.str) # <<>>

\* an update that carries a title was accepted, and one was stored by create
C4_Witness ==
    /\ request.op = "update" /\ reply.code = 200
    /\ request.body.title # Undefined
    /\ Cardinality(DOMAIN db) >= 2

\* the title of a create body is missing, not a string, or trims to ""
TitleUnusable(body) ==
    \/ body.title = Undefined
    \/ body.title.type # "string"
    \/ trim(body.title.str) = <<>>

\* C5: create fails with 400 and inserts nothing when title is missing, is
\* not a string, or trims to the empty string.
C5_CreateNeedsTitle ==
    (request.op = "create" /\ TitleUnusable(request.body)) =>
        /\ reply.code = 400
        /\ reply.error = "Bad Request"
        /\ db = before
        /\ reply.todo = NullTodo

\* a create whose title is only white space was refused while a record exists
C5_Witness ==
    /\ request.op = "create" /\ reply.code = 400
    /\ request.body.title = Blank
    /\ DOMAIN db # {}

\* C6: a create whose title is longer than 255 characters fails with 400 and
\* inserts no record.
C6_LongTitleRefused ==
    (request.op = "create" /\ request.body.title.type = "string"
        /\ Len(request.body.title.str) > TITLE_MAX) =>
        reply.code = 400 /\ db = before

\* C7: an accepted create stores and returns the trimmed title and the
\* trimmed description ("" when absent).
C7_CreateStoresTrimmed ==
    (request.op = "create" /\ reply.code = 200) =>
        /\ reply.todo.title = Str(trim(request.body.title.str))
        /\ reply.todo.description = Str(trim(request.body.description.str))
        /\ db[reply.todo.id] = reply.todo

\* C8: get, update, toggle and delete of a non-numeric id fail with 400, not
\* with 404, and do not touch the store.
C8_NonNumericIdIsBadRequest ==
    (request.op \in ById /\ \A i \in 1..Len(request.todoId) :
                               ~IsDigit(request.todoId[i])) =>
        reply.code = 400 /\ db = before

\* a delete of "abc" was refused as a bad id while a record exists
C8_Witness ==
    /\ request.op = "delete" /\ request.todoId = <<"a", "b", "c">>
    /\ reply = BadId
    /\ DOMAIN db # {}

\* C9: an id that is not a decimal numeral ("12abc", "1.5", "-1") is refused
\* with 400; it is never resolved to a record nor reported as not found.
C9_MalformedIdRefused ==
    (request.op \in ById /\ ~IsNumeral(request.todoId)) => reply.code = 400

\* C10: a successful update sets exactly the fields its body holds; a field
\* the body omits keeps its value, the id stays, other records are unchanged.
C10_UpdateSetsOnlyGivenFields ==
    (request.op = "update" /\ reply.code = 200) =>
        LET id == reply.todo.id
            b  == request.body
        IN  /\ id \in DOMAIN before
            /\ DOMAIN db = DOMAIN before
            /\ db[id].id = before[id].id
            /\ db[id].title = IF b.title # Undefined THEN b.title
                              ELSE before[id].title
            /\ db[id].description = IF b.description # Undefined
                                    THEN b.description
                                    ELSE before[id].description
            /\ db[id].completed = IF b.completed # Undefined THEN b.completed
                                  ELSE before[id].completed
            /\ \A j \in DOMAIN db \ {id} : db[j] = before[j]
            /\ reply.todo = db[id]

\* an update of completed alone succeeded on a record with a description,
\* next to another record
C10_Witness ==
    /\ request.op = "update" /\ reply.code = 200
    /\ request.body = Body(Undefined, Undefined, Bool(TRUE), FALSE)
    /\ before[reply.todo.id].description = DescD
    /\ before[reply.todo.id].completed = Bool(FALSE)
    /\ Cardinality(DOMAIN db) >= 2

\* C11: an update whose body has description = "" overwrites a description
\* that was not empty; an update without description leaves it as it was.
C11_EmptyDescriptionOverwrites ==
    (request.op = "update" /\ reply.code = 200) =>
        /\ (request.body.description = Empty
               => db[reply.todo.id].description = Empty
                  /\ reply.todo.description = Empty)
        /\ (request.body.description = Undefined
               => db[reply.todo.id].description
                  = before[reply.todo.id].description)

\* an update with description "" succeeded on a record that had a description
C11_Witness ==
    /\ request.op = "update" /\ reply.code = 200
    /\ request.body.description = Empty
    /\ before[reply.todo.id].description = DescD

\* the request names, by a numeral, an id that the table held
NamesPresentId ==
    \E n \in DOMAIN before : request.todoId = Decimal(n)

\* the body is absent or holds none of title, description, completed
NoRecognizedKey(body) ==
    \/ ~body.present
    \/ body.title = Undefined /\ body.description = Undefined
       /\ body.completed = Undefined

\* C12: an update whose body is absent or has no recognized key fails with
\* 400 and leaves the record unchanged, also when the body has other keys.
C12_EmptyUpdateIsBadRequest ==
    (request.op = "update" /\ NamesPresentId
        /\ NoRecognizedKey(request.body)) =>
        reply.code = 400 /\ db = before

\* C14: a successful toggle changes the completed field of its record and
\* nothing else: not its id, title or description, not the set of ids, not
\* another record.
C14_ToggleChangesOnlyCompleted ==
    (request.op = "toggle" /\ reply.code = 200) =>
        LET id == reply.todo.id
        IN  /\ id \in DOMAIN before
            /\ DOMAIN db = DOMAIN before
            /\ db[id] = [before[id] EXCEPT
                            !.completed = Bool(~before[id].completed.bool)]
            /\ \A j \in DOMAIN db \ {id} : db[j] = before[j]
            /\ reply.todo = db[id]

\* a toggle succeeded on a record with a description, next to a record that
\* is not completed
C14_Witness ==
    /\ request.op = "toggle" /\ reply.code = 200
    /\ db[reply.todo.id].description = DescD
    /\ \E j \in DOMAIN db \ {reply.todo.id} : db[j].completed = Bool(FALSE)

\* the request names, by a numeral, an id that was assigned and then deleted
NamesDeletedId ==
    /\ request.op \in ById
    /\ \E i \in 1..Len(created) :
          request.todoId = Decimal(created[i]) /\ created[i] \notin DOMAIN before

\* C17: once the delete of an id has succeeded, every later get, update,
\* toggle and delete of that id fails with 404, whatever happened since.
C17_DeletedStaysNotFound ==
    NamesDeletedId => reply.code = 404 /\ db = before

\* what GET /api/todos sends for the table tbl read in the order scan
Listed(tbl, scan) ==
    TodoController_getAllTodos(tbl, sqlite_sequence, scan).reply.todos

\* what GET /api/todos/stats sends for the table tbl read in the order scan
Counted(tbl, scan) ==
    TodoController_getTodoStats(tbl, sqlite_sequence, scan).reply.stats

\* C16: a successful delete removes exactly the record it names: the list
\* afterwards is the list before without that record, every other record
\* unchanged, and the total of the statistics is one less.
C16_DeleteRemovesExactlyOne ==
    (request.op = "delete" /\ reply.code = 200) =>
        \E id \in DOMAIN before :
            /\ ParseTodoId(request.todoId).val = id
            /\ \A was \in Scans(before), now \in Scans(db) :
                  LET Others(row) == row.id # id
                  IN  /\ Listed(db, now) = SelectSeq(Listed(before, was), Others)
                      /\ Len(Listed(db, now)) = Len(Listed(before, was)) - 1
                      /\ Counted(db, now).total = Counted(before, was).total - 1

\* a delete succeeded on one of two records
C16_Witness ==
    /\ request.op = "delete" /\ reply.code = 200
    /\ Cardinality(DOMAIN before) = 2
    /\ Cardinality(DOMAIN db) = 1

\* C19: the list holds every stored record exactly once, by ascending id,
\* and is the empty sequence, not an error, when nothing is stored.
C19_ListIsEveryRecordById ==
    (request.op = "list") =>
        /\ reply.code = 200
        /\ Len(reply.todos) = Cardinality(DOMAIN db)
        /\ \A i \in DOMAIN db : \E k \in 1..Len(reply.todos) : reply.todos[k] = db[i]
        /\ \A k \in 1..Len(reply.todos) :
              \A l \in 1..Len(reply.todos) :
                  k < l => reply.todos[k].id < reply.todos[l].id
        /\ (DOMAIN db = {} => reply.todos = <<>>)

\* two records were listed
C19_Witness ==
    /\ request.op = "list" /\ reply.code = 200
    /\ Len(reply.todos) = 2
    /\ Cardinality(DOMAIN db) = 2

\* C20: the filter takes the flags "true" and "false" only; any other flag,
\* or none, is refused with 400; an accepted flag yields exactly the records
\* whose completed equals the flag, by ascending id.
C20_FilterByExactFlag ==
    (request.op = "filter") =>
        IF request.completed \in {QueryTrue, QueryFalse}
        THEN LET flag == Bool(request.completed = QueryTrue)
                 kept == {i \in DOMAIN db : db[i].completed = flag}
             IN  /\ reply.code = 200
                 /\ Len(reply.todos) = Cardinality(kept)
                 /\ \A i \in kept :
                       \E k \in 1..Len(reply.todos) : reply.todos[k] = db[i]
                 /\ \A k \in 1..Len(reply.todos) :
                       \A l \in 1..Len(reply.todos) :
                           k < l => reply.todos[k].id < reply.todos[l].id
                 /\ db = before
        ELSE /\ reply.code = 400
             /\ reply.error = "Bad Request"
             /\ reply.todos = <<>>
             /\ db = before

\* a flag other than "true" and "false" was refused while a record that is
\* not completed was stored
C20_Witness ==
    /\ request.op = "filter" /\ reply.code = 400
    /\ request.completed = Str(<<"1">>)
    /\ \E i \in DOMAIN db : db[i].completed = Bool(FALSE)

\* C13: two toggles in sequence on one existing id, nothing else naming the
\* id in between: the first returns the negated completed, the second the
\* original one, and the record holds the original one again.
C13_ToggleTwiceRestores ==
    (request.op = "toggle" /\ prev.op = "toggle"
        /\ request.todoId = Decimal(prev.id)) =>
        /\ reply.code = 200
        /\ prev.todo.completed = Bool(~prev.orig)
        /\ reply.todo.completed = Bool(prev.orig)
        /\ reply.todo.id = prev.id
        /\ db[prev.id].completed = Bool(prev.orig)

\* the second toggle followed a request on another id and returned a record
\* to completed = false
C13_Witness ==
    /\ request.op = "toggle" /\ prev.op = "toggle"
    /\ request.todoId = Decimal(prev.id)
    /\ reply.code = 200
    /\ prev.orig = FALSE
    /\ \E j \in DOMAIN db : j # prev.id

\* C15: create(x), then get of the id it returned, returns the entity that
\* create returned: the title and description of x, the id assigned, and
\* completed = false.
C15_CreateThenGet ==
    (request.op = "get" /\ prev.op = "create"
        /\ request.todoId = Decimal(prev.id)) =>
        /\ reply.code = 200
        /\ reply.todo = prev.todo
        /\ reply.todo.id = prev.id
        /\ reply.todo.title = prev.body.title
        /\ reply.todo.description =
              (IF prev.body.description = Undefined THEN Empty
               ELSE prev.body.description)
        /\ reply.todo.completed = Bool(FALSE)

\* the record created from a title and a description was read back
C15_Witness ==
    /\ request.op = "get" /\ prev.op = "create"
    /\ request.todoId = Decimal(prev.id)
    /\ reply.code = 200
    /\ prev.body.description = DescD

\* C18: the statistics sent are those of the table as getTodoStats read it,
\* also when other requests were handled before they were sent: total is the
\* number of its records, completed the number of them with completed true,
\* pending = total - completed, and none of the three is negative.
C18_StatsCountTheStore ==
    (request.op = "stats" /\ reply # NoReply) =>
        LET held == DOMAIN before
            done == {i \in held : before[i].completed = Bool(TRUE)}
        IN  /\ reply.code = 200
            /\ reply.stats.total = Cardinality(held)
            /\ reply.stats.completed = Cardinality(done)
            /\ reply.stats.pending = Cardinality(held) - Cardinality(done)
            /\ reply.stats.total = reply.stats.completed + reply.stats.pending
            /\ reply.stats.total >= 0
            /\ reply.stats.completed >= 0
            /\ reply.stats.pending >= 0

\* statistics with a completed and a pending record were sent after the
\* table had changed under them
C18_Witness ==
    /\ request.op = "stats" /\ reply.code = 200
    /\ reply.stats.completed = 1
    /\ reply.stats.pending = 1
    /\ db # before

\* the body of the update is refused by the validation: it is absent or
\* empty, or one of its fields has the wrong type
BodyIsInvalid == validateUpdateData(request.body) # NoError

\* C22: update resolves the id before it validates the body: for an id that
\* is not in the store and a body that is invalid as well, the update fails
\* with 404 Not Found, never with a validation failure.
C22_UpdateResolvesIdFirst ==
    (request.op = "update" /\ NamesAbsentId /\ BodyIsInvalid) =>
        reply.code = 404 /\ reply.error = "Not Found"

\* C28: create never stores completed = true: a body that passes validation
\* and carries completed: true yields a stored and returned record with
\* completed = false.
C28_CreateNeverCompleted ==
    (request.op = "create" /\ reply.code = 200) =>
        /\ reply.todo.completed = Bool(FALSE)
        /\ db[reply.todo.id].completed = Bool(FALSE)
        /\ \A i \in DOMAIN db \ DOMAIN before : db[i].completed = Bool(FALSE)

\* a body with completed: true created a record
C28_Witness ==
    /\ request.op = "create" /\ reply.code = 200
    /\ request.body.completed = Bool(TRUE)
    /\ reply.todo.id \in DOMAIN db

\* both callers have their replies to the request op on one id that was in
\* the table when the first of the two was sent
BothDone(op) ==
    /\ \A c \in Callers : calls[c].op = op /\ calls[c].pc = "done"
    /\ \E id \in DOMAIN before : \A c \in Callers : calls[c].id = id

C24_DeleteRacingToggleIsNotFound ==
    \A c \in Callers :
        (calls[c].op = "toggle" /\ calls[c].gone) =>
            calls[c].reply.code = 404

\* C25: of two deletes of one existing id in flight together, one replies 200
\* and the other 404; no delete replies 200 for a record it did not remove.
C25_OneDeleteSucceeds ==
    /\ BothDone("delete") =>
          \E c, d \in Callers :
              calls[c].reply.code = 200 /\ calls[d].reply.code = 404
    /\ \A c \in Callers :
          (calls[c].op = "delete" /\ calls[c].reply.code = 200) =>
              ~calls[c].gone

\* both callers toggled one existing id and both got 200
BothToggled ==
    BothDone("toggle") /\ \A c \in Callers : calls[c].reply.code = 200

\* C26: after two toggles of one existing id in flight together that both
\* succeed, completed has its original value: no flip is lost.
C26_NoFlipLost ==
    BothToggled =>
        \A c \in Callers :
            db[calls[c].id].completed = before[calls[c].id].completed

\* C26 as amended: completed has its original value when one toggle read
\* the record after the other had written it; when both read it before
\* either wrote, both write the same value and completed ends negated.
C26_LastToggleWins ==
    BothToggled =>
        \A c, d \in Callers :
            c # d =>
                db[calls[c].id].completed =
                    (IF calls[c].todo.completed = calls[d].todo.completed
                     THEN Bool(~before[calls[c].id].completed.bool)
                     ELSE before[calls[c].id].completed)

\* both toggles read the record before either wrote it
C26_Witness ==
    /\ BothToggled
    /\ \A c, d \in Callers : calls[c].todo.completed = calls[d].todo.completed

\* the counts of the table tbl
CountsOf(tbl) == Todo_getStats(Todo_count(tbl), Todo_countCompleted(tbl))

\* C30: what Todo.getStats returns has pending >= 0 and total = completed +
\* pending and is the counts of one state of the store, also when a write
\* commits between its two reads.
C30_GetStatsOfOneState ==
    \A c \in Callers :
        (calls[c].op = "getStats" /\ calls[c].pc = "done") =>
            LET stats == calls[c].reply.stats
            IN  /\ stats.pending >= 0
                /\ stats.total = stats.completed + stats.pending
                /\ stats \in {CountsOf(before), CountsOf(db)}

\* C21: a failure of the store in any operation is reported as 500 with a
\* generic message; the message of the store's error is no part of the
\* response, whatever its text.
C21_StoreFailureIsOpaque ==
    \A c \in Callers :
        calls[c].thrown # <<>> =>
            /\ calls[c].reply.code = 500
            /\ calls[c].reply.error = "Internal Server Error"
            /\ \A i \in 1..Len(calls[c].reply.message) :
                  \A j \in 1..Len(calls[c].thrown) :
                      calls[c].reply.message[i] # calls[c].thrown[j]

\* C27: an operation that ends with 400, 404 or 500 leaves the store as it
\* was before the request: a failed create, update, toggle or delete has
\* inserted, modified and removed nothing.
C27_ErrorLeavesStoreUnchanged ==
    \A c \in Callers :
        (calls[c].op \in {"create", "update", "toggle", "delete"}
            /\ calls[c].pc = "done"
            /\ calls[c].reply.code \in {400, 404, 500}) =>
            db = before

\* a request is in the hands of its handler
InFlight == calls[Alone].pc \notin {"idle", "done"}

\* the handler has sent a response with one of the four statuses
Answered ==
    /\ calls[Alone].pc = "done"
    /\ calls[Alone].reply.code \in {200, 400, 404, 500}

\* C29: every request the controller handles ends with one response, of
\* status 200, 400, 404 or 500, also where the service or the repository
\* throws: a request in flight is answered, an answer has one of the four
\* statuses, and a sent answer is not replaced.
C29_OneResponse ==
    /\ InFlight ~> Answered
    /\ [](calls[Alone].pc = "done" => Answered)
    /\ [][calls[Alone].pc = "done" =>
              calls'[Alone] \in {calls[Alone], NoCall}]_vars

\* a request whose store call threw was answered with 500
C29_Witness ==
    /\ Answered
    /\ calls[Alone].thrown # <<>>
    /\ calls[Alone].reply.code = 500

====
